---- MODULE Spec2Model ----
(***************************************************************************)
(* Order-fulfilment resilience protocol of Valerix: the order service      *)
(* (POST /orders with a 2 s axios timeout, the order_completion_queue      *)
(* consumer), the inventory service (POST /inventory/deduct,               *)
(* deductInventory, the inventory_queue consumer) and the RabbitMQ         *)
(* connection loops of both services.                                      *)
(*                                                                         *)
(* Every await of the source is a step boundary.  The Prisma interactive   *)
(* transaction of deductInventory runs at the database's default isolation *)
(* (READ COMMITTED): its read sees the committed stock, and its update,    *)
(* its insert into the idempotency log and its commit take effect together *)
(* (the row lock taken by the update is held until the commit).            *)
(***************************************************************************)
EXTENDS Integers, Sequences, FiniteSets, TLC

\* ---- bounds of the model ----
NumOrders == 2
InitStock == 1
MaxQty == 2
MaxRedeliver == 1
MaxConnFail == 1
\* the clock runs for at most this many periods of the cleanup timer
MaxTicks == 7
\* at most this many request durations are recorded
MaxSamples == 3
\* the negative quantities of a request body go down to -MaxNegQty
MaxNegQty == 1
\* const WINDOW_SIZE_MS = 30000 (ms)
WINDOW_SIZE_MS == 30000
\* setInterval(..., 5000)
SWEEP_INTERVAL_MS == 5000

Orders == 1..NumOrders
Services == {"order", "inventory"}
\* the product table holds one seeded product
Products == {"p1"}
\* productId values of a request body: "" is a missing field, "px" is unknown
ProductIds == {"", "p1", "px"}
\* quantity values of a request body: 0 is a missing or falsy field
Quantities == 0..MaxQty
\* the durations of finished requests, in seconds
Durations == {1, 3}
\* the request bodies tried: every quantity for the seeded product, and one
\* body each for a missing productId, a missing quantity, an unknown product
Bodies ==
    {b \in [productId : ProductIds, quantity : Quantities] :
        b.productId = "p1" \/ b.quantity = 1}
\* request bodies with a negative quantity for the seeded product
NegativeBodies ==
    {[productId |-> "p1", quantity |-> -q] : q \in 1..MaxNegQty}
Paths == {"sync", "async"}

VARIABLES
    orders,                 \* order table: status, productId, quantity per id
    pc,                     \* position of each POST /orders handler
    error,                  \* the error caught by each POST /orders handler
    res,                    \* the HTTP response each placement returned
    stock,                  \* product table: stock per product id
    idempotencyLog,         \* idempotencyLog table: the orderIds recorded
    deduct,                 \* deductInventory executions, per order and path
    channel,                \* the `channel` variable of each service
    conn,                   \* position of each connectToRabbit loop
    connFails,              \* failed connection attempts so far
    consumers,              \* consumers each service has registered
    inventory_queue,        \* messages on inventory_queue
    order_completion_queue, \* messages on order_completion_queue
    redelivered,            \* deliveries the broker has repeated so far
    applied,                \* history: committed stock updates per order
    completions,            \* history: orders a completion event was applied to
    sent,                   \* history: orders published to inventory_queue
    firstRun,               \* history: how the consumer's first run ended
    unapplied,              \* history: orders whose event's update failed
    now,                    \* Date.now() of the order service, in ms
    requestDurations,       \* the requestDurations array
    recorded,               \* history: every sample ever pushed
    statsRes                \* the last response of GET /stats

vars == <<orders, pc, error, res, stock, idempotencyLog,
          deduct, channel, conn, connFails, consumers, inventory_queue,
          order_completion_queue, redelivered, applied, completions, sent,
          firstRun, unapplied, now, requestDurations, recorded, statsRes>>

orderVars == <<orders, pc, error, res>>
statsVars == <<now, requestDurations, recorded, statsRes>>
invVars == <<stock, idempotencyLog, deduct, applied>>
connVars == <<channel, conn, connFails, consumers>>
queueVars == <<inventory_queue, order_completion_queue, redelivered>>
histVars == <<completions, sent, firstRun, unapplied>>

\* ---- data ----
NoOrder == [status |-> "NONE", productId |-> "", quantity |-> 0]
NoRes == [code |-> 0, status |-> "", error |-> "", orderId |-> 0]
Idle == [pc |-> "idle", productId |-> "", quantity |-> 0, read |-> 0]
Terminal == {"CONFIRMED", "COMPLETED", "FAILED"}

\* a handler without the validation of the request body
PlacementUnchecked(p, q) == TRUE

\* POST /orders: if (!productId || !quantity) -> 400
PlacementValid(p, q) == p # "" /\ q # 0

\* POST /inventory/deduct: if (!productId || !quantity || !orderId) -> 400
DeductRequestValid(p, q, o) == p # "" /\ q # 0 /\ o # 0

\* a catch that takes every failure of the call for a timeout
AnyErrorIsTimeout(e) == TRUE

\* catch (error): error.code === 'ECONNABORTED' || message includes 'timeout'
IsTimeout(e) == e = "ECONNABORTED"

\* let errorMessage = 'Order failed due to inventory issue' (never reassigned)
ErrorMessage(e) == "Order failed due to inventory issue"

RECURSIVE Digits(_)
\* JSON.stringify of a number: its decimal digits, most significant first
Digits(n) == IF n < 10 THEN <<n>> ELSE Append(Digits(n \div 10), n % 10)

RECURSIVE Number(_)
\* JSON.parse of a number: the value its decimal digits denote
Number(ds) ==
    IF ds = <<>> THEN 0
    ELSE 10 * Number(SubSeq(ds, 1, Len(ds) - 1)) + ds[Len(ds)]

\* a member "key":"value" of a JSON text
Str(k, v) == [key |-> k, kind |-> "string", text |-> v]

\* a member "key":digits of a JSON text, the digits after a minus sign when
\* the number is negative
Num(k, n) ==
    [key |-> k, kind |-> IF n < 0 THEN "negative" ELSE "number",
     text |-> Digits(IF n < 0 THEN -n ELSE n)]

\* JSON.parse(msg.content.toString()): the object that has, for each key of
\* the text, the value of the member of that key
JSONparse(text) ==
    [k \in {text[i].key : i \in DOMAIN text} |->
        LET m == text[CHOOSE i \in DOMAIN text : text[i].key = k]
        IN CASE m.kind = "number" -> Number(m.text)
             [] m.kind = "negative" -> -Number(m.text)
             [] OTHER -> m.text]

\* a WorkItem that carries the quantity 1 whatever the order asks for
WorkItemOfOne(o) ==
    <<Str("productId", orders[o].productId), Num("quantity", 1),
      Num("orderId", o)>>

\* JSON.stringify({ productId, quantity, orderId: order.id })
WorkItem(o) ==
    <<Str("productId", orders[o].productId),
      Num("quantity", orders[o].quantity), Num("orderId", o)>>

\* JSON.stringify({ orderId, status: 'COMPLETED', message })
CompletionMsg(o) ==
    <<Num("orderId", o), Str("status", "COMPLETED"),
      Str("message", "Inventory deducted successfully (Async)")>>

\* (data.status === 'COMPLETED' || data.status === 'FAILED') ? data.status : 'COMPLETED'
CompletionStatus(s) == IF s \in {"COMPLETED", "FAILED"} THEN s ELSE "COMPLETED"

\* requests are numbered as they arrive; prisma.order.create gives the order
\* of a request an id of its own, here the number of the request
NextOrderId == Cardinality({o \in Orders : pc[o] # "idle"}) + 1

\* no GET /stats was answered yet
NoStats == [averageLatency |-> <<0, 1>>, requestCount |-> 0, at |-> -1]

\* ---- initial state ----
Init ==
    /\ orders = [o \in Orders |-> NoOrder]
    /\ pc = [o \in Orders |-> "idle"]
    /\ error = [o \in Orders |-> "none"]
    /\ res = [o \in Orders |-> NoRes]
    /\ stock = [p \in Products |-> InitStock]
    /\ idempotencyLog = {}
    /\ deduct = [o \in Orders |-> [k \in Paths |-> Idle]]
    /\ channel = [s \in Services |-> "none"]
    /\ conn = [s \in Services |-> "connecting"]
    /\ connFails = 0
    /\ consumers = [s \in Services |-> 0]
    /\ inventory_queue = <<>>
    /\ order_completion_queue = <<>>
    /\ redelivered = 0
    /\ applied = [o \in Orders |-> 0]
    /\ completions = {}
    /\ sent = {}
    /\ firstRun = [o \in Orders |-> "none"]
    /\ unapplied = {}
    /\ now = 0
    /\ requestDurations = <<>>
    /\ recorded = <<>>
    /\ statsRes = NoStats

\* ---- connectToRabbit (both services) ----
\* a connectToRabbit that returns after a failed attempt
GiveUp == "stopped"

\* while (true) { try ... catch { wait 5 s } }: after a failed attempt the
\* loop connects again
AfterFailure == "connecting"

\* amqp.connect or createChannel throws: log, wait 5 s, try again
ConnectFail(s) ==
    /\ conn[s] = "connecting"
    /\ connFails < MaxConnFail
    /\ connFails' = connFails + 1
    /\ conn' = [conn EXCEPT ![s] = AfterFailure]
    /\ UNCHANGED <<channel, consumers>>
    /\ UNCHANGED <<orderVars, invVars, queueVars, histVars>>
    /\ UNCHANGED statsVars

\* channel = await connection.createChannel()
CreateChannel(s) ==
    /\ conn[s] = "connecting"
    /\ channel' = [channel EXCEPT ![s] = "open"]
    /\ conn' = [conn EXCEPT ![s] = "declaring"]
    /\ UNCHANGED <<connFails, consumers>>
    /\ UNCHANGED <<orderVars, invVars, queueVars, histVars>>
    /\ UNCHANGED statsVars

\* an assertQueue throws: the channel variable keeps the dead channel
DeclareFail(s) ==
    /\ conn[s] = "declaring"
    /\ connFails < MaxConnFail
    /\ connFails' = connFails + 1
    /\ channel' = [channel EXCEPT ![s] = "closed"]
    /\ conn' = [conn EXCEPT ![s] = AfterFailure]
    /\ UNCHANGED consumers
    /\ UNCHANGED <<orderVars, invVars, queueVars, histVars>>
    /\ UNCHANGED statsVars

\* a loop without the break: it connects again after a success
NoBreak == "connecting"

\* break; after channel.consume the loop ends and the consumer runs
AfterSuccess == "consuming"

\* both assertQueue calls succeed; channel.consume registers the consumer; break
StartConsume(s) ==
    /\ conn[s] = "declaring"
    /\ consumers' = [consumers EXCEPT ![s] = @ + 1]
    /\ conn' = [conn EXCEPT ![s] = AfterSuccess]
    /\ UNCHANGED <<channel, connFails>>
    /\ UNCHANGED <<orderVars, invVars, queueVars, histVars>>
    /\ UNCHANGED statsVars

\* the order service's established connection is lost (broker restart,
\* network): the channel object that the variable holds is dead and the
\* consumer is gone.  connectToRabbit returned at its break and registered
\* no 'close' or 'error' listener, so nothing runs it again.
OrderConnectionLost ==
    /\ conn["order"] = "consuming"
    /\ channel' = [channel EXCEPT !["order"] = "closed"]
    /\ conn' = [conn EXCEPT !["order"] = "lost"]
    /\ consumers' = [consumers EXCEPT !["order"] = 0]
    /\ UNCHANGED connFails
    /\ UNCHANGED <<orderVars, invVars, queueVars, histVars>>
    /\ UNCHANGED statsVars

\* ---- POST /orders ----
\* res.status(400).json({ error: 'Missing productId or quantity' })
Res400 ==
    [code |-> 400, status |-> "", error |-> "Missing productId or quantity",
     orderId |-> 0]

\* a request with a missing productId or quantity is answered 400 and
\* creates no order
RejectOrder(p, q) ==
    LET o == NextOrderId IN
    /\ ~PlacementValid(p, q)
    /\ o \in Orders
    /\ res' = [res EXCEPT ![o] = Res400]
    /\ pc' = [pc EXCEPT ![o] = "done"]
    /\ UNCHANGED <<orders, error>>
    /\ UNCHANGED <<invVars, connVars, queueVars, histVars>>
    /\ UNCHANGED statsVars

\* prisma.order.create (PENDING), then axios.post to /inventory/deduct;
\* the inventory handler validates the body and, with gremlin, sleeps 5 s
PlaceOrder(p, q, g) ==
    LET o == NextOrderId IN
    /\ PlacementValid(p, q)
    /\ o \in Orders
    /\ orders' = [orders EXCEPT ![o] =
                     [status |-> "PENDING", productId |-> p, quantity |-> q]]
    /\ pc' = [pc EXCEPT ![o] = "await"]
    /\ deduct' = [deduct EXCEPT ![o]["sync"] =
                     [pc |-> IF ~DeductRequestValid(p, q, o) THEN "err"
                             ELSE IF g THEN "delay" ELSE "check",
                      productId |-> p, quantity |-> q, read |-> 0]]
    /\ UNCHANGED <<error, res, stock, idempotencyLog, applied>>
    /\ UNCHANGED <<connVars, queueVars, histVars>>
    /\ UNCHANGED statsVars

\* the handler awaits the answer of axios.post
Waiting(o) == pc[o] = "await"

\* a handler whose axios call carries no timeout
NoDeadline(o) == FALSE

\* { timeout: 2000 }: the timer is armed while the handler awaits the answer
DeadlineArmed(o) == Waiting(o)

\* a handler that writes QUEUED where it should write CONFIRMED
StatusForQueuedOnOk(outcome) ==
    CASE outcome = "ok" -> "QUEUED"
      [] outcome = "queued" -> "QUEUED"
      [] OTHER -> "FAILED"

\* the status each branch of the handler writes with prisma.order.update
StatusFor(outcome) ==
    CASE outcome = "ok" -> "CONFIRMED"
      [] outcome = "queued" -> "QUEUED"
      [] OTHER -> "FAILED"

\* res.status(201).json(updatedOrder)
Res201(o) == [code |-> 201, status |-> "CONFIRMED", error |-> "", orderId |-> o]

\* res.status(202).json({ message, status: 'QUEUED', id: order.id })
Res202(o) == [code |-> 202, status |-> "QUEUED", error |-> "", orderId |-> o]

\* a failure response that leaves the orderId out
Res503NoOrderId(o, e) ==
    [code |-> 503, status |-> "FAILED", error |-> ErrorMessage(e), orderId |-> 0]

\* res.status(503).json({ error: errorMessage, orderId, status: 'FAILED' })
Res503(o, e) ==
    [code |-> 503, status |-> "FAILED", error |-> ErrorMessage(e), orderId |-> o]

\* inventoryResponse.status === 200: update the order to CONFIRMED, answer
\* 201.  No message names the order, so no other step reads or writes it
\* between the update and the response: they are taken as one step.
Receive200(o) ==
    /\ Waiting(o)
    /\ deduct[o]["sync"].pc = "ok"
    /\ orders' = [orders EXCEPT ![o].status = StatusFor("ok")]
    /\ res' = [res EXCEPT ![o] = Res201(o)]
    /\ pc' = [pc EXCEPT ![o] = "done"]
    /\ deduct' = [deduct EXCEPT ![o]["sync"].pc = "done"]
    /\ UNCHANGED error
    /\ UNCHANGED <<stock, idempotencyLog, applied>>
    /\ UNCHANGED <<connVars, queueVars, histVars>>
    /\ UNCHANGED statsVars

\* an answer of the inventory that arrives after the catch is dropped
Dropped(e) ==
    IF e.pc \in {"ok", "err"} THEN [e EXCEPT !.pc = "done"] ELSE e

\* if (channel) channel.sendToQueue('inventory_queue', ...); the update to
\* QUEUED is the handler's next step
Fallback(o) ==
    /\ inventory_queue' = Append(inventory_queue, WorkItem(o))
    /\ sent' = sent \cup {o}
    /\ pc' = [pc EXCEPT ![o] = "setQueued"]
    /\ UNCHANGED <<orders, res>>
    /\ UNCHANGED <<order_completion_queue, redelivered, completions, firstRun>>
    /\ UNCHANGED unapplied

\* General Failure: update the order to FAILED, answer 503
GeneralFailure(o, e) ==
    /\ orders' = [orders EXCEPT ![o].status = StatusFor("failed")]
    /\ res' = [res EXCEPT ![o] = Res503(o, e)]
    /\ pc' = [pc EXCEPT ![o] = "done"]
    /\ UNCHANGED <<queueVars, histVars>>

\* catch (error) of the handler: a timeout with a usable channel takes the
\* fallback; with no channel (throw new Error("Critical: ...")) or a closed
\* one (sendToQueue throws) catch (queueError) falls through to General
\* Failure, as does every failure that is not a timeout
Catch(o, e) ==
    /\ error' = [error EXCEPT ![o] = e]
    /\ IF IsTimeout(e) /\ channel["order"] = "open"
       THEN Fallback(o)
       ELSE GeneralFailure(o, e)
    /\ deduct' = [deduct EXCEPT ![o]["sync"] = Dropped(@)]
    /\ UNCHANGED <<stock, idempotencyLog, applied>>
    /\ UNCHANGED connVars
    /\ UNCHANGED statsVars

\* the inventory answered 400: axios throws an error that is not a timeout
Receive400(o) ==
    /\ Waiting(o)
    /\ deduct[o]["sync"].pc = "err"
    /\ Catch(o, "ERR_BAD_REQUEST")

\* the timeout fires with a usable channel
TimeoutEnqueue(o) ==
    /\ DeadlineArmed(o)
    /\ channel["order"] = "open"
    /\ Catch(o, "ECONNABORTED")

\* the timeout fires with no usable channel
TimeoutNoQueue(o) ==
    /\ DeadlineArmed(o)
    /\ channel["order"] # "open"
    /\ Catch(o, "ECONNABORTED")

\* await prisma.order.update({ where: { id: order.id }, data: { status: 'QUEUED' } })
SetQueued(o) ==
    /\ pc[o] = "setQueued"
    /\ orders' = [orders EXCEPT ![o].status = StatusFor("queued")]
    /\ pc' = [pc EXCEPT ![o] = "res202"]
    /\ UNCHANGED <<error, res>>
    /\ UNCHANGED <<invVars, connVars, queueVars, histVars>>
    /\ UNCHANGED statsVars

\* the update to QUEUED throws (the database fails for a moment):
\* catch (queueError), fall through to General Failure; the WorkItem is
\* already on inventory_queue
SetQueuedFails(o) ==
    /\ pc[o] = "setQueued"
    /\ GeneralFailure(o, error[o])
    /\ UNCHANGED error
    /\ UNCHANGED <<invVars, connVars>>
    /\ UNCHANGED statsVars

\* res.status(202).json(...); return
Respond202(o) ==
    /\ pc[o] = "res202"
    /\ res' = [res EXCEPT ![o] = Res202(o)]
    /\ pc' = [pc EXCEPT ![o] = "done"]
    /\ UNCHANGED <<orders, error>>
    /\ UNCHANGED <<invVars, connVars, queueVars, histVars>>
    /\ UNCHANGED statsVars

\* ---- order_completion_queue consumer (order service) ----
\* parse the event, prisma.order.update to its status, ack; the broker may
\* deliver the event again (at-least-once)
ApplyCompletion(again) ==
    /\ conn["order"] = "consuming"
    /\ order_completion_queue # <<>>
    /\ LET msg == JSONparse(Head(order_completion_queue)) IN
       /\ orders' = [orders EXCEPT ![msg.orderId].status =
                        CompletionStatus(msg.status)]
       /\ completions' = completions \cup {msg.orderId}
    /\ IF again
       THEN /\ redelivered < MaxRedeliver
            /\ redelivered' = redelivered + 1
            /\ UNCHANGED order_completion_queue
       ELSE /\ order_completion_queue' = Tail(order_completion_queue)
            /\ UNCHANGED redelivered
    /\ UNCHANGED <<pc, error, res, inventory_queue, sent, firstRun>>
    /\ UNCHANGED unapplied
    /\ UNCHANGED <<invVars, connVars>>
    /\ UNCHANGED statsVars

\* a consumer that rejects the event when the update throws: the broker
\* delivers the event again
ApplyCompletionFailsRequeue ==
    /\ conn["order"] = "consuming"
    /\ order_completion_queue # <<>>
    /\ redelivered < MaxRedeliver
    /\ LET msg == JSONparse(Head(order_completion_queue)) IN
       unapplied' = unapplied \cup {msg.orderId}
    /\ redelivered' = redelivered + 1
    /\ UNCHANGED <<inventory_queue, order_completion_queue>>
    /\ UNCHANGED <<completions, sent, firstRun>>
    /\ UNCHANGED <<orderVars, invVars, connVars>>
    /\ UNCHANGED statsVars

\* prisma.order.update throws (the database fails for a moment): catch (e)
\* logs "Failed to update order status", then channel.ack(msg)
ApplyCompletionFails ==
    /\ conn["order"] = "consuming"
    /\ order_completion_queue # <<>>
    /\ LET msg == JSONparse(Head(order_completion_queue)) IN
       unapplied' = unapplied \cup {msg.orderId}
    /\ order_completion_queue' = Tail(order_completion_queue)
    /\ UNCHANGED <<inventory_queue, redelivered>>
    /\ UNCHANGED <<completions, sent, firstRun>>
    /\ UNCHANGED <<orderVars, invVars, connVars>>
    /\ UNCHANGED statsVars

\* ---- POST /inventory/deduct and the inventory_queue consumer ----
\* setTimeout(resolve, 5000): the delay outlasts the caller's 2000 ms timeout
GremlinDelay(o) ==
    /\ deduct[o]["sync"].pc = "delay"
    /\ ~Waiting(o)
    /\ deduct' = [deduct EXCEPT ![o]["sync"].pc = "check"]
    /\ UNCHANGED <<stock, idempotencyLog, applied>>
    /\ UNCHANGED <<orderVars, connVars, queueVars, histVars>>
    /\ UNCHANGED statsVars

\* the consumer callback takes a message and calls deductInventory; the
\* broker may deliver the message again (at-least-once)
Deliver(again) ==
    /\ conn["inventory"] = "consuming"
    /\ inventory_queue # <<>>
    /\ LET msg == JSONparse(Head(inventory_queue)) IN
       /\ deduct[msg.orderId]["async"].pc = "idle"
       /\ deduct' = [deduct EXCEPT ![msg.orderId]["async"] =
                        [pc |-> "check", productId |-> msg.productId,
                         quantity |-> msg.quantity, read |-> 0]]
    /\ IF again
       THEN /\ redelivered < MaxRedeliver
            /\ redelivered' = redelivered + 1
            /\ UNCHANGED inventory_queue
       ELSE /\ inventory_queue' = Tail(inventory_queue)
            /\ UNCHANGED redelivered
    /\ UNCHANGED <<stock, idempotencyLog, applied, order_completion_queue>>
    /\ UNCHANGED <<orderVars, connVars, histVars>>
    /\ UNCHANGED statsVars

\* a deductInventory without the idempotency check
NoIdempotencyCheck(o) == FALSE

\* prisma.idempotencyLog.findUnique({ where: { orderId } })
ExistingLog(o) == o \in idempotencyLog

\* where a finished deductInventory leaves its caller: the consumer goes on
\* with the result; the endpoint answers 200 or 400, and the answer is
\* dropped when the order service has stopped waiting
Finished(o, k, r) == IF k = "sync" /\ ~Waiting(o) THEN "done" ELSE r

\* deductInventory: the idempotency check before the transaction
DeductCheck(o, k) ==
    /\ deduct[o][k].pc = "check"
    /\ deduct' = [deduct EXCEPT ![o][k].pc =
                     IF ExistingLog(o) THEN Finished(o, k, "ok") ELSE "txRead"]
    /\ UNCHANGED <<stock, idempotencyLog, applied>>
    /\ UNCHANGED <<orderVars, connVars, queueVars, histVars>>
    /\ UNCHANGED statsVars

\* a transaction that tests only that the product exists
InsufficientUnchecked(p, q) == p \notin Products

\* if (!product || product.stock < quantity) throw
Insufficient(p, q) == p \notin Products \/ stock[p] < q

\* tx.product.findUnique and the stock test
DeductTxRead(o, k) ==
    /\ deduct[o][k].pc = "txRead"
    /\ LET e == deduct[o][k] IN
       deduct' = [deduct EXCEPT ![o][k] =
                     IF Insufficient(e.productId, e.quantity)
                     THEN [e EXCEPT !.pc = Finished(o, k, "err")]
                     ELSE [e EXCEPT !.pc = "txWrite",
                                    !.read = stock[e.productId]]]
    /\ UNCHANGED <<stock, idempotencyLog, applied>>
    /\ UNCHANGED <<orderVars, connVars, queueVars, histVars>>
    /\ UNCHANGED statsVars

\* an idempotencyLog table without the unique index on orderId
NoUniqueIndex(o) == FALSE

\* the unique orderId of idempotencyLog rejects a second record
UniqueViolation(o) == o \in idempotencyLog

\* data: { stock: product.stock - quantity }
NewStock(read, q) == read - q

\* tx.product.update, tx.idempotencyLog.create and the commit; a unique
\* violation rolls the transaction back and deductInventory throws
DeductTxCommit(o, k) ==
    /\ deduct[o][k].pc = "txWrite"
    /\ LET e == deduct[o][k] IN
       IF UniqueViolation(o)
       THEN /\ deduct' = [deduct EXCEPT ![o][k] =
                             [e EXCEPT !.pc = Finished(o, k, "err"), !.read = 0]]
            /\ UNCHANGED <<stock, idempotencyLog, applied>>
       ELSE /\ stock' = [stock EXCEPT ![e.productId] =
                            NewStock(e.read, e.quantity)]
            /\ idempotencyLog' = idempotencyLog \cup {o}
            /\ applied' = [applied EXCEPT ![o] = @ + 1]
            /\ deduct' = [deduct EXCEPT ![o][k] =
                             [e EXCEPT !.pc = Finished(o, k, "ok"), !.read = 0]]
    /\ UNCHANGED <<orderVars, connVars, queueVars, histVars>>
    /\ UNCHANGED statsVars

\* history: the result of the first run of the consumer for order o
FirstRun(o, r) ==
    IF firstRun[o] = "none" THEN [firstRun EXCEPT ![o] = r] ELSE firstRun

\* consumer, deductInventory returned: publish the completion event, ack
AsyncComplete(o) ==
    /\ deduct[o]["async"].pc = "ok"
    /\ order_completion_queue' =
           Append(order_completion_queue, CompletionMsg(o))
    /\ deduct' = [deduct EXCEPT ![o]["async"] = Idle]
    /\ UNCHANGED <<stock, idempotencyLog, applied>>
    /\ firstRun' = FirstRun(o, "ok")
    /\ UNCHANGED <<inventory_queue, redelivered>>
    /\ UNCHANGED <<completions, sent, unapplied>>
    /\ UNCHANGED <<orderVars, connVars>>
    /\ UNCHANGED statsVars

\* a consumer that reports a failed run with a COMPLETED event
AsyncFailReportsCompleted(o) ==
    /\ deduct[o]["async"].pc = "err"
    /\ order_completion_queue' =
           Append(order_completion_queue, CompletionMsg(o))
    /\ deduct' = [deduct EXCEPT ![o]["async"] = Idle]
    /\ firstRun' = FirstRun(o, "err")
    /\ UNCHANGED <<stock, idempotencyLog, applied>>
    /\ UNCHANGED <<inventory_queue, redelivered>>
    /\ UNCHANGED <<completions, sent, unapplied>>
    /\ UNCHANGED <<orderVars, connVars>>
    /\ UNCHANGED statsVars

\* a consumer that leaves the message of a failed run to the broker, which
\* puts it back on the queue
AsyncFailRequeue(o) ==
    /\ deduct[o]["async"].pc = "err"
    /\ deduct' = [deduct EXCEPT ![o]["async"] = Idle]
    /\ inventory_queue' = Append(inventory_queue, WorkItem(o))
    /\ UNCHANGED <<stock, idempotencyLog, applied>>
    /\ firstRun' = FirstRun(o, "err")
    /\ UNCHANGED <<order_completion_queue, redelivered>>
    /\ UNCHANGED <<completions, sent, unapplied>>
    /\ UNCHANGED <<orderVars, connVars>>
    /\ UNCHANGED statsVars

\* consumer, deductInventory threw: log and ack, nothing is published
AsyncFail(o) ==
    /\ deduct[o]["async"].pc = "err"
    /\ deduct' = [deduct EXCEPT ![o]["async"] = Idle]
    /\ firstRun' = FirstRun(o, "err")
    /\ UNCHANGED <<stock, idempotencyLog, applied>>
    /\ UNCHANGED <<completions, sent, unapplied>>
    /\ UNCHANGED <<orderVars, connVars, queueVars>>
    /\ UNCHANGED statsVars

\* ---- rolling window stats (order service) ----
\* the clock of the process moves on, by the period of the cleanup timer
Tick ==
    /\ now < MaxTicks * SWEEP_INTERVAL_MS
    /\ now' = now + SWEEP_INTERVAL_MS
    /\ UNCHANGED <<requestDurations, recorded, statsRes>>
    /\ UNCHANGED <<orderVars, invVars, connVars, queueVars, histVars>>

\* res.on('finish'): requestDurations.push({ time: Date.now(), duration })
RecordDuration(d) ==
    /\ Len(recorded) < MaxSamples
    /\ requestDurations' =
           Append(requestDurations, [time |-> now, duration |-> d])
    /\ recorded' = Append(recorded, [time |-> now, duration |-> d])
    /\ UNCHANGED <<now, statsRes>>
    /\ UNCHANGED <<orderVars, invVars, connVars, queueVars, histVars>>

\* a cleanup that keeps only the samples pushed at this very instant
SweepKeepsCurrent(r, t) == t - r.time <= 0

\* the cleanup's filter: r => now - r.time <= WINDOW_SIZE_MS
SweepKeeps(r, t) == t - r.time <= WINDOW_SIZE_MS

\* setInterval(..., 5000): the periodic cleanup replaces the array
Sweep ==
    /\ requestDurations' =
           SelectSeq(requestDurations, LAMBDA r : SweepKeeps(r, now))
    /\ requestDurations' # requestDurations
    /\ UNCHANGED <<now, recorded, statsRes>>
    /\ UNCHANGED <<orderVars, invVars, connVars, queueVars, histVars>>

\* a read that drops the sample exactly WINDOW_SIZE_MS old
InWindowStrict(r, t) == t - r.time < WINDOW_SIZE_MS

\* the filter of GET /stats: r => now - r.time <= WINDOW_SIZE_MS
InWindow(r, t) == t - r.time <= WINDOW_SIZE_MS

\* validDurations.reduce((sum, r) => sum + r.duration, 0)
RECURSIVE Reduce(_)
Reduce(seq) ==
    IF seq = <<>> THEN 0 ELSE Head(seq).duration + Reduce(Tail(seq))

\* count > 0 ? totalDuration / count : 0, the quotient kept as a fraction
Average(totalDuration, count) ==
    IF count > 0 THEN <<totalDuration, count>> ELSE <<0, 1>>

\* the body GET /stats answers from the array seq at time t
Stats(seq, t) ==
    LET validDurations == SelectSeq(seq, LAMBDA r : InWindow(r, t))
        count == Len(validDurations)
        totalDuration == Reduce(validDurations)
    IN [averageLatency |-> Average(totalDuration, count),
        requestCount |-> count, at |-> t]

\* app.get('/stats')
GetStats ==
    /\ statsRes' = Stats(requestDurations, now)
    /\ UNCHANGED <<now, requestDurations, recorded>>
    /\ UNCHANGED <<orderVars, invVars, connVars, queueVars, histVars>>

\* ---- specification ----
HandlerStep(o) ==
    \/ Receive200(o)
    \/ Receive400(o)
    \/ TimeoutEnqueue(o)
    \/ TimeoutNoQueue(o)
    \/ SetQueued(o)
    \/ Respond202(o)

Next ==
    \/ \E s \in Services : CreateChannel(s)
    \/ \E s \in Services : StartConsume(s)
    \/ \E b \in Bodies : RejectOrder(b.productId, b.quantity)
    \/ \E b \in Bodies, g \in BOOLEAN : PlaceOrder(b.productId, b.quantity, g)
    \/ \E o \in Orders : Receive200(o)
    \/ \E o \in Orders : Receive400(o)
    \/ \E o \in Orders : TimeoutEnqueue(o)
    \/ \E o \in Orders : TimeoutNoQueue(o)
    \/ \E o \in Orders : SetQueued(o)
    \/ \E o \in Orders : Respond202(o)
    \/ \E again \in BOOLEAN : ApplyCompletion(again)
    \/ \E o \in Orders : GremlinDelay(o)
    \/ \E again \in BOOLEAN : Deliver(again)
    \/ \E o \in Orders, k \in Paths : DeductCheck(o, k)
    \/ \E o \in Orders, k \in Paths : DeductTxRead(o, k)
    \/ \E o \in Orders, k \in Paths : DeductTxCommit(o, k)
    \/ \E o \in Orders : AsyncComplete(o)
    \/ \E o \in Orders : AsyncFail(o)

Spec == Init /\ [][Next]_vars

\* the same with failing connection attempts of connectToRabbit
RetryNext ==
    \/ Next
    \/ \E s \in Services : ConnectFail(s)
    \/ \E s \in Services : DeclareFail(s)

RetrySpec == Init /\ [][RetryNext]_vars

\* the same with a database that may fail the handler's update to QUEUED
\* and the completion consumer's update
DbFaultNext ==
    \/ Next
    \/ \E o \in Orders : SetQueuedFails(o)
    \/ ApplyCompletionFails

DbFaultSpec == Init /\ [][DbFaultNext]_vars

\* the same with a loss of the order service's established connection
LossNext ==
    \/ Next
    \/ OrderConnectionLost

\* each service's connectToRabbit loop keeps running while it has not
\* returned
LossSpec ==
    /\ Init /\ [][LossNext]_vars
    /\ \A s \in Services : WF_vars(CreateChannel(s) \/ StartConsume(s))

\* the rolling window of the order service on its own: requests finish,
\* time passes, the cleanup runs, GET /stats is read
StatsNext ==
    \/ Tick
    \/ \E d \in Durations : RecordDuration(d)
    \/ Sweep
    \/ GetStats

StatsSpec == Init /\ [][StatsNext]_vars

\* the steps of a run in which the broker delivers every message once
OnceNext ==
    \/ \E s \in Services : CreateChannel(s)
    \/ \E s \in Services : StartConsume(s)
    \/ \E b \in Bodies : RejectOrder(b.productId, b.quantity)
    \/ \E b \in Bodies, g \in BOOLEAN : PlaceOrder(b.productId, b.quantity, g)
    \/ \E o \in Orders : HandlerStep(o)
    \/ ApplyCompletion(FALSE)
    \/ \E o \in Orders : GremlinDelay(o)
    \/ Deliver(FALSE)
    \/ \E o \in Orders, k \in Paths : DeductCheck(o, k)
    \/ \E o \in Orders, k \in Paths : DeductTxRead(o, k)
    \/ \E o \in Orders, k \in Paths : DeductTxCommit(o, k)
    \/ \E o \in Orders : AsyncComplete(o)
    \/ \E o \in Orders : AsyncFail(o)

\* the same with placements of a negative quantity, which the validation
\* of POST /orders and of POST /inventory/deduct lets through
SignedNext ==
    \/ OnceNext
    \/ \E b \in NegativeBodies, g \in BOOLEAN :
           PlaceOrder(b.productId, b.quantity, g)

SignedSpec == Init /\ [][SignedNext]_vars

\* startup against a broker that refuses some attempts and then stays
\* available (at most MaxConnFail attempts fail), while requests arrive
StartupNext ==
    \/ OnceNext
    \/ \E s \in Services : ConnectFail(s)
    \/ \E s \in Services : DeclareFail(s)

\* each service's connectToRabbit loop keeps running
StartupSpec ==
    /\ Init /\ [][StartupNext]_vars
    /\ \A s \in Services : WF_vars(CreateChannel(s) \/ StartConsume(s))

\* the handler's timer and its database updates always complete; nothing is
\* assumed of the inventory service, of the consumers or of the broker
FairSpec ==
    Init /\ [][OnceNext]_vars /\ \A o \in Orders : WF_vars(HandlerStep(o))

\* scenario B: every order is placed with the fault flag (gremlin) set, so
\* its synchronous call is held for 5 s and the handler's timeout fires (no
\* answer reaches a waiting handler); the broker delivers every message once
GremlinNext ==
    \/ \E s \in Services : CreateChannel(s)
    \/ \E s \in Services : StartConsume(s)
    \/ \E b \in Bodies : PlaceOrder(b.productId, b.quantity, TRUE)
    \/ \E o \in Orders : TimeoutEnqueue(o)
    \/ \E o \in Orders : TimeoutNoQueue(o)
    \/ \E o \in Orders : SetQueued(o)
    \/ \E o \in Orders : Respond202(o)
    \/ ApplyCompletion(FALSE)
    \/ \E o \in Orders : GremlinDelay(o)
    \/ Deliver(FALSE)
    \/ \E o \in Orders, k \in Paths : DeductCheck(o, k)
    \/ \E o \in Orders, k \in Paths : DeductTxRead(o, k)
    \/ \E o \in Orders, k \in Paths : DeductTxCommit(o, k)
    \/ \E o \in Orders : AsyncComplete(o)
    \/ \E o \in Orders : AsyncFail(o)

\* fair scheduling: the connection loops, the handlers, both consumers and
\* every invocation of deductInventory keep taking their steps
GremlinFairness ==
    /\ \A s \in Services : WF_vars(CreateChannel(s) \/ StartConsume(s))
    /\ \A o \in Orders : WF_vars(HandlerStep(o))
    /\ WF_vars(ApplyCompletion(FALSE))
    /\ WF_vars(Deliver(FALSE))
    /\ \A o \in Orders : WF_vars(GremlinDelay(o))
    /\ \A o \in Orders, k \in Paths :
           WF_vars(DeductCheck(o, k) \/ DeductTxRead(o, k) \/ DeductTxCommit(o, k))
    /\ \A o \in Orders : WF_vars(AsyncComplete(o) \/ AsyncFail(o))

GremlinSpec == Init /\ [][GremlinNext]_vars /\ GremlinFairness

TypeOK ==
    /\ \A o \in Orders : orders[o].status \in
           {"NONE", "PENDING", "CONFIRMED", "QUEUED", "COMPLETED", "FAILED"}
    /\ \A p \in Products : stock[p] \in Int
    /\ idempotencyLog \subseteq Orders

\* ---- properties ----
\* the WorkItems of order o on inventory_queue
Queued(o) ==
    {i \in 1..Len(inventory_queue) :
        JSONparse(inventory_queue[i]).orderId = o}

\* the completion events of order o on order_completion_queue
Completing(o) ==
    {i \in 1..Len(order_completion_queue) :
        JSONparse(order_completion_queue[i]).orderId = o}

\* some deductInventory invocation for order o is known to have succeeded
Succeeded(o) ==
    \/ \E k \in Paths : deduct[o][k].pc = "ok"
    \/ res[o].code = 201
    \/ Completing(o) # {}
    \/ o \in completions

RECURSIVE SumQty(_)
\* the sum of the quantities of the orders in S
SumQty(S) ==
    IF S = {} THEN 0
    ELSE LET o == CHOOSE x \in S : TRUE
         IN orders[o].quantity + SumQty(S \ {o})

\* C1: whatever deductInventory invocations run for one orderId (the
\* synchronous call, the consumer's, a redelivery's), the stock update of
\* that order is committed at most once, and exactly once as soon as one
\* invocation has succeeded; while it is the only order deducted, the stock
\* is the initial stock less its quantity.
C1_DeductedOnce ==
    \A o \in Orders :
        /\ applied[o] <= 1
        /\ Succeeded(o) => applied[o] = 1
        /\ idempotencyLog = {o} =>
               stock[orders[o].productId] = InitStock - orders[o].quantity

\* C1 witness: a redelivered WorkItem has run deductInventory to success
\* for an order whose completion event was already applied
C1_Witness ==
    \E o \in Orders :
        /\ applied[o] = 1
        /\ o \in completions
        /\ deduct[o]["async"].pc = "ok"
        /\ deduct[o]["sync"].pc = "done"

\* C2: the stock of every item is >= 0 in every reachable state.
C2_StockNonNegative == \A p \in Products : stock[p] >= 0

\* C2 witness: a transaction holds a read of the stock that another order's
\* committed transaction has since lowered
C2_Witness ==
    \E o1 \in Orders, o2 \in Orders, k \in Paths :
        /\ o1 # o2
        /\ o2 \in idempotencyLog
        /\ deduct[o1][k].pc = "txWrite"
        /\ deduct[o1][k].read > stock[deduct[o1][k].productId]

\* C3: no update is lost: the initial stock less the current stock is the
\* sum of the quantities of the orders that have an idempotency record.
C3_NoLostUpdate ==
    InitStock - stock["p1"] =
        SumQty({o \in idempotencyLog : orders[o].productId = "p1"})

\* C4: an order whose status is CONFIRMED, COMPLETED or FAILED keeps that
\* status in every later step.
C4_TerminalIsFinal ==
    [][\A o \in Orders :
          orders[o].status \in Terminal =>
              orders'[o].status = orders[o].status]_vars

\* the five transitions of the order state machine
Transitions ==
    {<<"PENDING", "CONFIRMED">>, <<"PENDING", "QUEUED">>,
     <<"PENDING", "FAILED">>, <<"QUEUED", "COMPLETED">>,
     <<"QUEUED", "FAILED">>}

\* C5: every change of the status of an existing order is one of the five
\* transitions of the state machine.
C5_OnlyFiveTransitions ==
    [][\A o \in Orders :
          (orders[o].status # "NONE" /\ orders'[o].status # orders[o].status)
              => <<orders[o].status, orders'[o].status>> \in Transitions]_vars

\* C6: an order answered 201 (its synchronous call succeeded before the
\* timeout) is CONFIRMED, was never published to inventory_queue and has no
\* WorkItem; only published orders are ever QUEUED.
C6_SyncSuccessConfirmed ==
    \A o \in Orders :
        /\ res[o].code = 201 =>
               /\ orders[o].status = "CONFIRMED"
               /\ o \notin sent
               /\ Queued(o) = {}
        /\ orders[o].status = "QUEUED" => o \in sent

\* C6 witness: an order was answered 201 while the channel was usable
C6_Witness ==
    \E o \in Orders : res[o].code = 201 /\ channel["order"] = "open"

\* C7: an order answered 202 whose completion event has been applied is
\* COMPLETED or FAILED (it left QUEUED on that event and stays there).
C7_QueuedThenCompleted ==
    \A o \in Orders :
        (res[o].code = 202 /\ o \in completions) =>
            orders[o].status \in {"COMPLETED", "FAILED"}

\* C8: a timeout that finds the channel unset publishes nothing, writes
\* FAILED and answers 503 with the orderId, in that step; the order then
\* stays FAILED and no WorkItem of it ever exists.
C8_NoChannelFailsFast ==
    /\ [][\A o \in Orders :
             (Waiting(o) /\ error'[o] = "ECONNABORTED"
                  /\ channel["order"] = "none") =>
                 /\ inventory_queue' = inventory_queue
                 /\ orders'[o].status = "FAILED"
                 /\ res'[o].code = 503
                 /\ res'[o].orderId = o
                 /\ res'[o].status = "FAILED"]_vars
    /\ [](\A o \in Orders :
             (error[o] = "ECONNABORTED" /\ o \notin sent) =>
                 /\ orders[o].status = "FAILED"
                 /\ res[o].code = 503
                 /\ Queued(o) = {})

\* C8 witness: an order timed out and was answered 503 with the channel
\* still unset
C8_Witness ==
    \E o \in Orders :
        /\ error[o] = "ECONNABORTED"
        /\ res[o].code = 503
        /\ orders[o].status = "FAILED"
        /\ channel["order"] = "none"

\* C9: the failure response of a placement that failed for want of a usable
\* channel and the failure response of a placement whose synchronous call
\* failed otherwise carry different error reasons.
C9_DistinctReasons ==
    \A o1 \in Orders, o2 \in Orders :
        (/\ res[o1].code = 503 /\ error[o1] = "ECONNABORTED"
         /\ res[o2].code = 503 /\ error[o2] = "ERR_BAD_REQUEST")
            => res[o1].error # res[o2].error

\* the step in which the placement of order o returns
Returns(o) == res[o] = NoRes /\ res'[o] # NoRes /\ res'[o].code # 400

\* every accepted placement returns, whatever the inventory service does
EventuallyReturns ==
    \A o \in Orders : (pc[o] = "await") ~> (pc[o] = "done" /\ res[o] # NoRes)

\* C10 as stated: every accepted placement returns, and the order's status
\* when it returns is CONFIRMED, QUEUED or FAILED.
C10_ReturnsSettled ==
    /\ EventuallyReturns
    /\ [][\A o \in Orders :
             Returns(o) =>
                 orders'[o].status \in {"CONFIRMED", "QUEUED", "FAILED"}]_vars

\* C10 as amended: every accepted placement returns, and the order's status
\* when it returns is never PENDING: it is CONFIRMED, QUEUED or FAILED, or
\* COMPLETED when the completion event was applied between the update to
\* QUEUED and the response.
C10_ReturnsNotPending ==
    /\ EventuallyReturns
    /\ [][\A o \in Orders :
             Returns(o) =>
                 /\ orders'[o].status \in
                        {"CONFIRMED", "QUEUED", "FAILED", "COMPLETED"}
                 /\ orders'[o].status = "COMPLETED" => res'[o].code = 202]_vars

\* C10 witness: a placement returned although its synchronous call is still
\* held up in the inventory service
C10_Witness ==
    \E o \in Orders :
        /\ pc[o] = "done"
        /\ res[o].code \in {202, 503}
        /\ deduct[o]["sync"].pc = "delay"

\* both invocations of deductInventory for order o have passed the
\* findUnique check and not yet finished their transaction
BothInTransaction(o) ==
    \A k \in Paths : deduct[o][k].pc \in {"txRead", "txWrite"}

\* C11: however the synchronous invocation (its caller timed out, it is
\* still running) and the consumer's invocation for the same orderId
\* interleave, also when both pass the findUnique check before either
\* commits, every step that changes the stock for the order is the first
\* commit of its record, and the order is deducted at most once.
C11_RacingDeductsOnce ==
    [][\A o \in Orders :
          /\ applied'[o] # applied[o] =>
                 /\ applied[o] = 0 /\ applied'[o] = 1
                 /\ o \notin idempotencyLog /\ o \in idempotencyLog'
          /\ BothInTransaction(o) => applied'[o] <= 1]_vars

\* C11 witness: one invocation has committed the order's record while the
\* other, which passed the findUnique check before that commit, is about to
\* write
C11_Witness ==
    \E o \in Orders :
        /\ o \in sent
        /\ applied[o] = 1
        /\ \E k \in Paths : deduct[o][k].pc = "txWrite"

\* C12: the stock decrement and the idempotency record of an order commit
\* together or not at all: a step adds the record of an order exactly when
\* it takes that order's quantity off the stock of its product, and no step
\* changes the stock without adding a record.
C12_RecordIffDecrement ==
    [][/\ \A o \in Orders :
             (o \in idempotencyLog' /\ o \notin idempotencyLog) =>
                 stock'[orders[o].productId] =
                     stock[orders[o].productId] - orders[o].quantity
       /\ stock' # stock => idempotencyLog' # idempotencyLog
       /\ idempotencyLog \subseteq idempotencyLog']_vars

\* C13: deductInventory invoked for an orderId whose idempotency record
\* exists returns success straight from the findUnique check (to the
\* consumer, or to the endpoint, whose answer is dropped when the caller has
\* stopped waiting) and leaves every stock and the set of records unchanged.
C13_IdempotentReturn ==
    [][\A o \in Orders, k \in Paths :
          (/\ deduct[o][k].pc = "check"
           /\ o \in idempotencyLog
           /\ deduct'[o][k].pc # "check") =>
              /\ deduct'[o][k].pc =
                     IF k = "sync" /\ ~Waiting(o) THEN "done" ELSE "ok"
              /\ stock' = stock
              /\ idempotencyLog' = idempotencyLog
              /\ applied' = applied]_vars

\* C13 witness: a redelivered WorkItem ran deductInventory to success while
\* the completion event of its first delivery is still on the queue
C13_Witness ==
    \E o \in Orders :
        /\ deduct[o]["async"].pc = "ok"
        /\ Completing(o) # {}
        /\ o \in idempotencyLog
        /\ stock[orders[o].productId] = InitStock - orders[o].quantity

\* order o asks for more than the product ever holds, or for a product the
\* inventory does not know
Excessive(o) ==
    /\ orders[o].status # "NONE"
    /\ orders[o].productId \notin Products \/ orders[o].quantity > InitStock

\* C14: a placement for a quantity greater than the stock of the product, or
\* for an unknown product, has returned: the order is FAILED, the response
\* is the 503 failure response, and the order has changed no stock and has
\* no idempotency record.
C14_ExcessAlwaysFails ==
    \A o \in Orders :
        (Excessive(o) /\ pc[o] = "done") =>
            /\ orders[o].status = "FAILED"
            /\ res[o].code = 503
            /\ o \notin idempotencyLog /\ applied[o] = 0

\* C14 as amended: an order for more than the stock, or for an unknown
\* product, never changes the stock and never gets an idempotency record:
\* deductInventory fails at the stock test without writing.  When that
\* failure reaches the placement before its deadline, the order ends FAILED
\* with the 503 failure response and nothing is enqueued; when the deadline
\* passes first, the placement takes the fallback instead.
C14_InsufficientFails ==
    /\ [](\A o \in Orders :
             /\ Excessive(o) => o \notin idempotencyLog /\ applied[o] = 0
             /\ error[o] = "ERR_BAD_REQUEST" =>
                    /\ orders[o].status = "FAILED"
                    /\ res[o].code = 503 /\ res[o].status = "FAILED"
                    /\ o \notin idempotencyLog /\ applied[o] = 0
                    /\ o \notin sent)
    /\ [][\A o \in Orders, k \in Paths :
             LET e == deduct[o][k] IN
             (/\ e.pc = "txRead"
              /\ e.productId \notin Products \/ stock[e.productId] < e.quantity
              /\ deduct'[o][k].pc # "txRead") =>
                 /\ deduct'[o][k].pc =
                        IF k = "sync" /\ ~Waiting(o) THEN "done" ELSE "err"
                 /\ stock' = stock
                 /\ idempotencyLog' = idempotencyLog]_vars

\* C14 witness: an order for more than the stock was answered 503 and is
\* FAILED, with the stock untouched
C14_Witness ==
    \E o \in Orders :
        /\ orders[o].quantity > InitStock
        /\ orders[o].status = "FAILED"
        /\ res[o].code = 503
        /\ error[o] = "ERR_BAD_REQUEST"
        /\ stock[orders[o].productId] = InitStock

\* C15: only the timeout of the synchronous call triggers the fallback: a
\* WorkItem is enqueued for an order only by a handler that caught the
\* timeout, and a handler that catches any other failure of the call leaves
\* inventory_queue unchanged and takes the order from PENDING to FAILED.
C15_OnlyTimeoutFallsBack ==
    /\ [](\A o \in Orders : o \in sent => error[o] = "ECONNABORTED")
    /\ [][\A o \in Orders :
             (error[o] = "none" /\ error'[o] \notin {"none", "ECONNABORTED"}) =>
                 /\ inventory_queue' = inventory_queue
                 /\ sent' = sent
                 /\ orders[o].status = "PENDING"
                 /\ orders'[o].status = "FAILED"]_vars

\* C15 witness: with the broker connected, the inventory refused an order
\* and the handler failed it without enqueueing anything
C15_Witness ==
    \E o \in Orders :
        /\ channel["order"] = "open"
        /\ error[o] = "ERR_BAD_REQUEST"
        /\ orders[o].status = "FAILED"
        /\ o \notin sent
        /\ Queued(o) = {}

\* the order_completion_queue consumer applies the event at the head of the
\* queue, an event for order o, in this step
AppliesCompletion(o) ==
    /\ order_completion_queue # <<>>
    /\ JSONparse(Head(order_completion_queue)).orderId = o
    /\ completions' = completions \cup {o}
    /\ pc' = pc /\ deduct' = deduct
    /\ inventory_queue' = inventory_queue
    /\ \/ order_completion_queue' = Tail(order_completion_queue)
       \/ redelivered' = redelivered + 1

\* C16: applying a completion event to an order that is already CONFIRMED,
\* COMPLETED or FAILED is a no-op: whatever outcome the event carries, the
\* order's status after the step is its status before.
C16_TerminalIgnoresEvent ==
    [][\A o \in Orders :
          (AppliesCompletion(o) /\ orders[o].status \in Terminal) =>
              orders'[o].status = orders[o].status]_vars

\* the inventory_queue consumer acknowledges the WorkItem of order o in this
\* step: channel.ack(msg) ends the callback
Acks(o) ==
    /\ deduct[o]["async"].pc \in {"ok", "err"}
    /\ deduct'[o]["async"].pc = "idle"

FailedMsg(o) == <<Num("orderId", o), Str("status", "FAILED")>>

\* C18: when deductInventory fails in the inventory_queue consumer, the step
\* that acknowledges the WorkItem publishes a completion event with outcome
\* FAILED for its orderId (which takes the QUEUED order to FAILED).
C18_FailurePublished ==
    [][\A o \in Orders :
          (Acks(o) /\ deduct[o]["async"].pc = "err") =>
              order_completion_queue' =
                  Append(order_completion_queue, FailedMsg(o))]_vars

\* nothing is left to happen for order o: its handler has returned, both of
\* its deductInventory invocations are over, and no WorkItem or completion
\* event of it is on a queue
Settled(o) ==
    /\ pc[o] = "done"
    /\ deduct[o]["sync"].pc = "done"
    /\ deduct[o]["async"].pc = "idle"
    /\ Queued(o) = {}
    /\ Completing(o) = {}

\* C19: an order placed with the fault flag set was answered 202 QUEUED (the
\* broker was available) and the stock sufficed for it (its deduction is
\* recorded): once both consumers have done all their work for it, the order
\* is COMPLETED and its quantity was taken off the stock exactly once.
C19_QueuedOrderCompletes ==
    \A o \in Orders :
        (res[o].code = 202 /\ o \in idempotencyLog /\ Settled(o)) =>
            /\ orders[o].status = "COMPLETED"
            /\ applied[o] = 1

\* service s has an established channel with its consumer registered
Established(s) == channel[s] = "open" /\ conn[s] = "consuming"

\* C20: connectToRabbit tries again after every failed attempt: once the
\* broker stays available each service gets, and keeps, an established
\* channel with its consumer registered, however many earlier attempts
\* failed.
C20_EventuallyConnected ==
    \A s \in Services : <>[]Established(s)

\* C20 witness: both services are established after the connection attempts
\* failed as often as the broker refuses them
C20_Witness ==
    /\ connFails = MaxConnFail
    /\ \A s \in Services : Established(s)

\* the connectToRabbit loop of service s is running: it is connecting or
\* declaring its queues
Retrying(s) == conn[s] \in {"connecting", "declaring"}

\* C21: after an established connection is lost the service retries until a
\* new channel is ready: whenever a service has no usable channel its
\* connectToRabbit loop is running, so that a fresh channel follows and a
\* placement that times out afterwards can be enqueued.
C21_LostConnectionRetried ==
    \A s \in Services : channel[s] # "open" => Retrying(s)

\* C22: the channel is usable by POST /orders only once it is established
\* and both queues are declared: every step in which a handler publishes a
\* WorkItem is taken while connectToRabbit has finished the declarations.
C22_PublishAfterDeclare ==
    [][\A o \in Orders :
          (o \in sent' /\ o \notin sent) => conn["order"] = "consuming"]_vars

\* the samples ever recorded that are at most 30 seconds old at time t
WindowAt(t) == {i \in 1..Len(recorded) : t - recorded[i].time <= 30 * 1000}

RECURSIVE SumDuration(_)
\* the sum of the durations of the recorded samples with index in I
SumDuration(I) ==
    IF I = {} THEN 0
    ELSE LET i == CHOOSE x \in I : TRUE
         IN recorded[i].duration + SumDuration(I \ {i})

\* C23: the average GET /stats reports at read time t is the mean of exactly
\* the samples with t - time <= 30 seconds, out of all samples ever
\* recorded, and 0 when there are none; the count is their number.
C23_WindowMean ==
    [][statsRes' # statsRes =>
          LET I == WindowAt(now)
              avg == statsRes'.averageLatency
          IN /\ statsRes'.at = now
             /\ statsRes'.requestCount = Cardinality(I)
             /\ I = {} => avg = <<0, 1>>
             /\ I # {} => /\ avg[2] > 0
                          /\ avg[1] * Cardinality(I) = SumDuration(I) * avg[2]]_vars

\* C23 witness: samples at 0 s, 10 s and 35 s were read at 35 s, and the
\* response counts the 10 s and 35 s samples only
C23_Witness ==
    /\ Len(recorded) = 3
    /\ recorded[1].time = 0
    /\ recorded[2].time = 10000
    /\ recorded[3].time = 35000
    /\ statsRes.at = 35000
    /\ statsRes.requestCount = 2
    /\ statsRes.averageLatency =
           <<recorded[2].duration + recorded[3].duration, 2>>

\* C24: the answer of GET /stats does not depend on the periodic cleanup: a
\* read answers what it would answer from the array had no cleanup ever run,
\* and the cleanup never removes a sample that is still in the window (so
\* none that a later read would count).
C24_SweepIndependent ==
    /\ [](SelectSeq(requestDurations, LAMBDA r : now - r.time <= 30 * 1000)
             = SelectSeq(recorded, LAMBDA r : now - r.time <= 30 * 1000))
    /\ [][statsRes' # statsRes => statsRes' = Stats(recorded, now)]_vars

\* C24 witness: the cleanup has removed a sample, a later sample is still in
\* the array, and GET /stats was read after that
C24_Witness ==
    /\ Len(requestDurations) < Len(recorded)
    /\ requestDurations # <<>>
    /\ statsRes.at = now
    /\ statsRes.requestCount >= 1

\* C25: redelivery of a WorkItem is safe: a run of the consumer for a
\* WorkItem it has processed before ends as the first run ended (so it
\* publishes a completion event only if the first did, and the order's final
\* status is the one a single delivery gives), and it commits no stock
\* update.
C25_RedeliverySame ==
    /\ [](\A o \in Orders :
             firstRun[o] # "none" =>
                 deduct[o]["async"].pc \in
                     {"idle", "check", "txRead", "txWrite", firstRun[o]})
    /\ [][\A o \in Orders :
             (firstRun[o] # "none" /\ deduct[o]["async"].pc = "txWrite") =>
                 applied'[o] = applied[o]]_vars

Responds(o) == res[o] = NoRes /\ res'[o] # NoRes

\* C27: the kind of response of a placement matches the order status
\* persisted at the moment of the response: 201 only with CONFIRMED, 202 only
\* with QUEUED, 503 only with FAILED, 400 only when no order was created.
C27_ResponseMatchesStatus ==
    [][\A o \in Orders :
          Responds(o) =>
              /\ res'[o].code \in {201, 202, 503, 400}
              /\ res'[o].code = 201 => orders'[o].status = "CONFIRMED"
              /\ res'[o].code = 202 => orders'[o].status = "QUEUED"
              /\ res'[o].code = 503 => orders'[o].status = "FAILED"
              /\ res'[o].code = 400 => orders'[o] = NoOrder]_vars

\* C27 as amended: 201 only with CONFIRMED, 503 only with FAILED, 400 only
\* when no order was created; 202 with QUEUED, or with COMPLETED when the
\* order's completion event was applied after the update to QUEUED and
\* before the response.
C27_ResponseMatchesOrLags ==
    [][\A o \in Orders :
          Responds(o) =>
              /\ res'[o].code \in {201, 202, 503, 400}
              /\ res'[o].code = 201 => orders'[o].status = "CONFIRMED"
              /\ res'[o].code = 202 =>
                     \/ orders'[o].status = "QUEUED"
                     \/ orders'[o].status = "COMPLETED" /\ o \in completions
              /\ res'[o].code = 503 => orders'[o].status = "FAILED"
              /\ res'[o].code = 400 => orders'[o] = NoOrder]_vars

\* C27 witness: one request was answered 400 and created no order, another
\* was answered 202 and its order is COMPLETED
C27_Witness ==
    \E o1, o2 \in Orders :
        /\ res[o1].code = 400 /\ orders[o1] = NoOrder
        /\ res[o2].code = 202 /\ orders[o2].status = "COMPLETED"

\* C28: a placement request lacking productId or quantity is answered 400
\* before anything happens: the step creates no order, calls no
\* /inventory/deduct and enqueues nothing, and the request stays answered
\* (it is not retried); every order that exists came from a request that had
\* both fields.
C28_InvalidRejected ==
    /\ [](\A o \in Orders :
             /\ res[o].code = 400 =>
                    /\ orders[o] = NoOrder
                    /\ pc[o] = "done"
                    /\ \A k \in Paths : deduct[o][k] = Idle
                    /\ o \notin sent /\ o \notin idempotencyLog
             /\ orders[o] # NoOrder =>
                    orders[o].productId # "" /\ orders[o].quantity # 0)
    /\ [][\A o \in Orders :
             (Responds(o) /\ res'[o].code = 400) =>
                 /\ orders' = orders
                 /\ deduct' = deduct
                 /\ inventory_queue' = inventory_queue
                 /\ stock' = stock]_vars

\* C28 witness: a request with a missing field was answered 400, and a later
\* request was accepted
C28_Witness ==
    \E o1, o2 \in Orders :
        /\ o1 < o2
        /\ res[o1] = Res400
        /\ orders[o1] = NoOrder
        /\ orders[o2].status # "NONE"

\* C29: each service has at most one consumer registered on its queue, and
\* exactly one once its connectToRabbit has succeeded, however many
\* connection attempts failed before: the retry loop never registers a
\* second consumer.
C29_OneConsumer ==
    \A s \in Services :
        /\ consumers[s] <= 1
        /\ conn[s] = "consuming" <=> consumers[s] = 1

\* C29 witness: after the connection attempts failed as often as the broker
\* refuses them, each service has one consumer
C29_Witness ==
    /\ connFails = MaxConnFail
    /\ \A s \in Services : consumers[s] = 1

\* C30: the enqueue/serialize/dequeue round trip changes no value: every
\* WorkItem on inventory_queue parses to the id, the productId and the
\* quantity of an order that was placed; the fulfilment the consumer starts
\* for the WorkItem at the head runs with that order's id, productId and
\* quantity; and the completion event the consumer publishes at the end of
\* the fulfilment of order o parses to the orderId o.
C30_RoundTrip ==
    /\ [](\A i \in DOMAIN inventory_queue :
            LET data == JSONparse(inventory_queue[i]) IN
            /\ data.orderId \in Orders
            /\ orders[data.orderId].status # "NONE"
            /\ data.productId = orders[data.orderId].productId
            /\ data.quantity = orders[data.orderId].quantity)
    /\ [][\A o \in Orders :
            /\ (deduct[o]["async"].pc = "idle"
                    /\ deduct'[o]["async"].pc = "check") =>
                  /\ inventory_queue # <<>>
                  /\ JSONparse(Head(inventory_queue)).orderId = o
                  /\ deduct'[o]["async"].productId = orders[o].productId
                  /\ deduct'[o]["async"].quantity = orders[o].quantity
            /\ (deduct[o]["async"].pc = "ok"
                    /\ deduct'[o]["async"].pc = "idle") =>
                  /\ order_completion_queue' # <<>>
                  /\ JSONparse(order_completion_queue'[
                         Len(order_completion_queue')]).orderId = o
                  /\ Len(order_completion_queue') =
                         Len(order_completion_queue) + 1]_vars

\* C30 witness: the completion event of one order is on
\* order_completion_queue while the consumer runs the fulfilment of another
\* order, one of quantity MaxQty, taken from inventory_queue.
C30_Witness ==
    \E o, p \in Orders :
        /\ o # p
        /\ Completing(o) # {}
        /\ deduct[p]["async"].pc # "idle"
        /\ deduct[p]["async"].quantity = MaxQty
        /\ orders[p].quantity = MaxQty

\* C31: an order whose status is FAILED has had no stock deducted for it: no
\* idempotency record exists for a FAILED order, also when the synchronous
\* call timed out, the fallback could not be scheduled and the downstream
\* call, which nothing cancels, finished later.
C31_FailedNotDeducted ==
    \A o \in Orders : orders[o].status = "FAILED" => o \notin idempotencyLog

\* C32: a completion event is never applied to an order that is still
\* PENDING, and the handler's write of QUEUED, made after sendToQueue, lands
\* on a PENDING order only: it never replaces a COMPLETED or FAILED status
\* that the completion consumer has set.
C32_QueuedBeforeCompletion ==
    [][\A o \in Orders :
          /\ AppliesCompletion(o) => orders[o].status # "PENDING"
          /\ (orders'[o].status = "QUEUED" /\ orders[o].status # "QUEUED") =>
                 orders[o].status = "PENDING"]_vars

\* C33: an order that the placement handler marks FAILED has no WorkItem on
\* inventory_queue and none being processed: when the publish succeeded and
\* the update to QUEUED failed, the order is not left FAILED while its
\* WorkItem is still going to be processed.
C33_FailedHasNoWorkItem ==
    [][\A o \in Orders :
          (pc[o] # "done" /\ pc'[o] = "done"
                /\ orders'[o].status = "FAILED") =>
              /\ Queued(o) = {}
              /\ deduct[o]["async"].pc = "idle"]_vars

\* C34: no operation ever increases the stock of a product: for every
\* quantity that the validation of POST /orders and POST /inventory/deduct
\* accepts, a deductInventory that commits leaves the stock strictly lower
\* than it was.
C34_StockNeverIncreases ==
    [][\A p \in Products :
          /\ stock'[p] <= stock[p]
          /\ (\E o \in Orders :
                  applied'[o] > applied[o] /\ orders[o].productId = p) =>
                 stock'[p] < stock[p]]_vars

\* C35: the order_completion_queue consumer acknowledges every completion
\* event it receives exactly once, whether or not the update of the order
\* succeeded: a step that takes events off order_completion_queue takes
\* exactly the event at the head, and the step in which the update of an
\* order failed takes the event off the queue (it is not delivered again)
\* and leaves every order's status as it was.
C35_AckedOnce ==
    [][/\ Len(order_completion_queue') < Len(order_completion_queue) =>
             order_completion_queue' = Tail(order_completion_queue)
       /\ unapplied' # unapplied =>
             /\ order_completion_queue # <<>>
             /\ unapplied' = unapplied \cup
                    {JSONparse(Head(order_completion_queue)).orderId}
             /\ order_completion_queue' = Tail(order_completion_queue)
             /\ redelivered' = redelivered
             /\ orders' = orders]_vars

\* C35 witness: the only completion event of a QUEUED order was taken off
\* the queue although its update failed: the deduction is recorded, no event
\* is left and the order is still QUEUED.
C35_Witness ==
    \E o \in Orders :
        /\ o \in unapplied
        /\ o \notin completions
        /\ o \in idempotencyLog
        /\ Completing(o) = {}
        /\ deduct[o]["async"].pc = "idle"
        /\ Queued(o) = {}
        /\ pc[o] = "done"
        /\ orders[o].status = "QUEUED"
====
